---- MODULE Spec2Model ----
(***************************************************************************)
(* A model of build.py, the cross-platform build script of the 3D HUD      *)
(* rendering engine: main(), check_prerequisites(), build_project() and    *)
(* the four build_for_* functions, with the external world (the argument   *)
(* vector, the environment, the filesystem, the host and the two external  *)
(* programs) as nondeterministic inputs.                                   *)
(*                                                                         *)
(* Python values: an Optional[str] is a sequence of at most one string,    *)
(* None being <<>>; a command line is the sequence of its argv strings.    *)
(***************************************************************************)
EXTENDS Integers, Sequences, FiniteSets, TLC

VARIABLES
    entry,            \* how the run was started: "main" or "build_project"
    args,             \* the parsed arguments / the parameters of build_project
    environ,          \* os.environ, restricted to the two SDK variables
    fs,               \* the filesystem: path -> "absent" | "file" | "dir"
    fs0,              \* the filesystem the run was started in
    pc,               \* the position of the run in the script
    check_result,     \* what check_prerequisites did: pending/True/False/raise
    target_platform,  \* build_project's local target_platform (Optional[str])
    arch,             \* build_project's / build_for_*'s local arch (Optional[str])
    success,          \* the value a build_for_* function returned
    ret,              \* what build_project did: pending/True/False/raise
    exit_code,        \* the process's exit code, NoExit while it runs
    raised,           \* the exception that ended the run, "" when none
    log               \* what the script did so far, in order

vars == <<entry, args, environ, fs, fs0, pc, check_result, target_platform, arch,
          success, ret, exit_code, raised, log>>

----------------------------------------------------------------------------
(* Bounds of the model. *)

\* external programs return an exit code in 0..MaxReturnCode
MaxReturnCode == 1
\* multiprocessing.cpu_count() is in 1..MaxJobs
MaxJobs == 2
\* `cmake --version` prints 1..MaxFields fields separated by single spaces
MaxFields == 3

----------------------------------------------------------------------------
(* Python helpers. *)

None == <<>>
Some(s) == <<s>>

\* `not x` for an Optional[str]: None and the empty string are falsy
Falsy(x) == x = None \/ x = Some("")

\* str(x) / f"{x}" for an Optional[str]
Str(x) == IF x = None THEN "None" ELSE x[1]

\* pathlib's `a / b`
Join(a, b) == a \o "/" \o b

\* Path(__file__).parent.absolute(), the directory the script lives in
project_root == "/proj"
build_dir == Join(project_root, "build")
conan_dir == Join(project_root, "conan")

ANDROID_NDK_HOME == "ANDROID_NDK_HOME"
QNX_SDP_HOME == "QNX_SDP_HOME"
NdkPath == "/opt/ndk"
QnxPath == "/opt/qnx"

Paths == {build_dir, conan_dir, Join(build_dir, "android"), Join(build_dir, "qnx"),
          NdkPath, QnxPath}
Kinds == {"absent", "file", "dir"}

\* os.path.exists / Path.exists: true of a file as well as of a directory.
\* The empty path never exists.
PathExists(f, p) == p \in DOMAIN f /\ f[p] # "absent"

\* the exit code of a run that has not exited
NoExit == 0 - 1

\* one entry of the log
Event(ev, what, rc) == [ev |-> ev, what |-> what, rc |-> rc]

----------------------------------------------------------------------------
(* The inputs of a run. *)

Platforms == {"windows", "linux", "android", "qnx"}
Archs == {"x86", "x86_64", "armv7", "armv8"}
BuildTypes == {"Debug", "Release", "RelWithDebInfo"}

\* what platform.system() can return on a host
HostSystems == {"Windows", "Linux", "Darwin", "FreeBSD"}

\* what argparse accepts: --platform and --arch are optional and restricted to
\* their choices, --build-type to its choices, --verbose and --clean are flags
ParserArgs ==
    [platform : {None} \cup {Some(p) : p \in Platforms},
     arch : {None} \cup {Some(a) : a \in Archs},
     build_type : BuildTypes,
     verbose : BOOLEAN,
     clean : BOOLEAN]

\* what a direct caller of build_project can pass: any strings, here the
\* parser's values and one more platform and one more architecture
CallerArgs ==
    [platform : {None} \cup {Some(p) : p \in Platforms \cup {"macos"}},
     arch : {None} \cup {Some(a) : a \in Archs \cup {"mips"}},
     build_type : BuildTypes,
     verbose : BOOLEAN,
     clean : BOOLEAN]

\* the values of an SDK variable: unset, set to the empty string, set to a path
EnvValues(path) == {None, Some(""), Some(path)}

\* The environments and filesystems a run is started in.  A run reads an SDK
\* variable, its path and a per-target sub-directory only when the requested
\* platform is that target, so these vary for that platform only.
Environs(a) ==
    {e \in [{ANDROID_NDK_HOME, QNX_SDP_HOME} -> {None, Some(""), Some(NdkPath), Some(QnxPath)}] :
        /\ e[ANDROID_NDK_HOME] \in (IF a.platform = Some("android")
                                    THEN EnvValues(NdkPath) ELSE {None})
        /\ e[QNX_SDP_HOME] \in (IF a.platform = Some("qnx")
                                THEN EnvValues(QnxPath) ELSE {None})}

Filesystems(a, e) ==
    {[p \in Paths |->
        CASE p = build_dir -> b
          [] p = conan_dir -> c
          [] p = Join(build_dir, "android") ->
                IF b = "dir" /\ a.platform = Some("android") THEN sub ELSE "absent"
          [] p = Join(build_dir, "qnx") ->
                IF b = "dir" /\ a.platform = Some("qnx") THEN sub ELSE "absent"
          [] p = NdkPath ->
                IF e[ANDROID_NDK_HOME] = Some(NdkPath) THEN sdk ELSE "absent"
          [] p = QnxPath ->
                IF e[QNX_SDP_HOME] = Some(QnxPath) THEN sdk ELSE "absent"] :
        b \in Kinds, c \in Kinds, sub \in Kinds, sdk \in Kinds}

Init ==
    /\ entry \in {"main", "build_project"}
    /\ args \in (IF entry = "main" THEN ParserArgs ELSE CallerArgs)
    /\ environ \in Environs(args)
    /\ fs \in Filesystems(args, environ)
    /\ fs0 = fs
    /\ pc = IF entry = "main" THEN "check_conan" ELSE "bp_resolve"
    /\ check_result = "pending"
    /\ target_platform = args.platform
    /\ arch = args.arch
    /\ success = "pending"
    /\ ret = "pending"
    /\ exit_code = NoExit
    /\ raised = ""
    /\ log = <<>>

----------------------------------------------------------------------------
(* Leaving the script. *)

\* an exception nobody catches: under main() the interpreter prints the
\* traceback and exits with code 1; a direct caller gets the exception
Raise(exc) ==
    /\ raised' = exc
    /\ pc' = "done"
    /\ exit_code' = IF entry = "main" THEN 1 ELSE exit_code

----------------------------------------------------------------------------
(* detect_platform *)

\* str.lower() on the identifiers platform.system() returns
Lower(s) ==
    CASE s = "Windows" -> "windows"
      [] s = "Linux" -> "linux"
      [] s = "Darwin" -> "darwin"
      [] s = "FreeBSD" -> "freebsd"
      [] OTHER -> s

\* detect_platform with every host other than Windows taken for Linux
detect_platform_ElseLinux(host) ==
    IF Lower(host) = "windows" THEN "windows" ELSE "linux"

detect_platform(host) ==
    LET system == Lower(host) IN
    IF system = "windows" THEN "windows"
    ELSE IF system = "linux" THEN "linux"
    ELSE IF system = "darwin" THEN "macos"
    ELSE "unknown"

----------------------------------------------------------------------------
(* check_prerequisites and its two helpers *)

\* check_android_prerequisites without its two tests
check_android_prerequisites_NoTest == TRUE

check_android_prerequisites ==
    LET android_ndk_home == environ[ANDROID_NDK_HOME] IN
    IF Falsy(android_ndk_home) THEN FALSE
    ELSE IF ~PathExists(fs, android_ndk_home[1]) THEN FALSE
    ELSE TRUE

check_qnx_prerequisites ==
    LET qnx_sdp_home == environ[QNX_SDP_HOME] IN
    IF Falsy(qnx_sdp_home) THEN FALSE
    ELSE IF ~PathExists(fs, qnx_sdp_home[1]) THEN FALSE
    ELSE TRUE

\* check_prerequisites returns False
CheckFails ==
    /\ check_result' = "False"
    /\ pc' = "main_checked"
    /\ UNCHANGED <<exit_code, raised>>

\* lines 98-107: subprocess.run(["conan", "--version"]); the program is not
\* found (FileNotFoundError, caught) or returns an exit code
ProbeConan ==
    /\ pc = "check_conan"
    /\ \/ /\ log' = Append(log, Event("probe_notfound", <<"conan", "--version">>, 0))
          /\ CheckFails
       \/ \E rc \in 0..MaxReturnCode :
            /\ log' = Append(log, Event("probe", <<"conan", "--version">>, rc))
            /\ IF rc # 0 THEN CheckFails
               ELSE /\ pc' = "check_cmake"
                    /\ UNCHANGED <<check_result, exit_code, raised>>
    /\ UNCHANGED <<entry, args, environ, fs0, fs, target_platform, arch, success, ret>>

\* lines 109-118: subprocess.run(["cmake", "--version"]); on exit code 0 the
\* version is printed as result.stdout.split(' ')[2], an IndexError when the
\* output has fewer than three fields
ProbeCMake ==
    /\ pc = "check_cmake"
    /\ \/ /\ log' = Append(log, Event("probe_notfound", <<"cmake", "--version">>, 0))
          /\ CheckFails
       \/ \E rc \in 0..MaxReturnCode, fields \in 1..MaxFields :
            /\ log' = Append(log, Event("probe", <<"cmake", "--version">>, rc))
            /\ IF rc # 0 THEN CheckFails
               ELSE IF fields < 3
               THEN /\ check_result' = "raise"
                    /\ Raise("IndexError")
               ELSE /\ pc' = "check_platform"
                    /\ UNCHANGED <<check_result, exit_code, raised>>
    /\ UNCHANGED <<entry, args, environ, fs0, fs, target_platform, arch, success, ret>>

\* lines 120-129: the platform-specific checks and the return
CheckPlatform ==
    /\ pc = "check_platform"
    /\ LET passed ==
            IF args.platform = Some("android") THEN check_android_prerequisites
            ELSE IF args.platform = Some("qnx") THEN check_qnx_prerequisites
            ELSE TRUE
       IN
       /\ check_result' = IF passed THEN "True" ELSE "False"
       /\ log' = IF args.platform = Some("android")
                    THEN Append(log, Event("check_env", <<ANDROID_NDK_HOME>>,
                                           IF passed THEN 0 ELSE 1))
                 ELSE IF args.platform = Some("qnx")
                    THEN Append(log, Event("check_env", <<QNX_SDP_HOME>>,
                                           IF passed THEN 0 ELSE 1))
                 ELSE log
    /\ pc' = "main_checked"
    /\ UNCHANGED <<entry, args, environ, fs0, fs, target_platform, arch, success, ret,
                   exit_code, raised>>

\* MainChecked with the result of the check ignored
MainChecked_Ignored ==
    /\ pc = "main_checked"
    /\ pc' = "bp_resolve"
    /\ UNCHANGED <<entry, args, environ, fs0, fs, check_result, target_platform, arch,
                   success, ret, exit_code, raised, log>>

\* main, lines 611-612: if not check_prerequisites(args.platform): sys.exit(1)
MainChecked ==
    /\ pc = "main_checked"
    /\ IF check_result = "True"
       THEN pc' = "bp_resolve" /\ UNCHANGED exit_code
       ELSE pc' = "done" /\ exit_code' = 1
    /\ UNCHANGED <<entry, args, environ, fs0, fs, check_result, target_platform, arch,
                   success, ret, raised, log>>

----------------------------------------------------------------------------
(* The script's own filesystem operations.  Each takes and returns a record  *)
(* [fs, log, exc]: the filesystem, the log, and the exception raised ("" for *)
(* none); after an exception nothing more is done.                           *)

\* the entries below a directory
Children(p) ==
    IF p = build_dir THEN {Join(build_dir, "android"), Join(build_dir, "qnx")} ELSE {}

\* `if p.exists(): shutil.rmtree(p)`: removes a directory and all below it;
\* shutil.rmtree of a regular file raises NotADirectoryError
RmtreeIfExists(st, p) ==
    IF st.exc # "" \/ ~PathExists(st.fs, p) THEN st
    ELSE IF st.fs[p] = "file" THEN [st EXCEPT !.exc = "NotADirectoryError"]
    ELSE [fs |-> [q \in Paths |-> IF q = p \/ q \in Children(p) THEN "absent"
                                  ELSE st.fs[q]],
          log |-> Append(st.log, Event("rmtree", <<p>>, 0)),
          exc |-> ""]

\* p.mkdir(exist_ok=True): creates the directory when absent, leaves an
\* existing directory alone, raises FileExistsError on a regular file
Mkdir(st, p) ==
    IF st.exc # "" \/ st.fs[p] = "dir" THEN st
    ELSE IF st.fs[p] = "file" THEN [st EXCEPT !.exc = "FileExistsError"]
    ELSE [fs |-> [st.fs EXCEPT ![p] = "dir"],
          log |-> Append(st.log, Event("mkdir", <<p>>, 0)),
          exc |-> ""]

----------------------------------------------------------------------------
(* build_project *)

\* lines 516-524: the default architecture of a platform, None for a
\* platform that is not one of the four
DefaultArch(platform) ==
    IF platform = "windows" THEN Some("x86_64")
    ELSE IF platform = "linux" THEN Some("x86_64")
    ELSE IF platform = "android" THEN Some("armv8")
    ELSE IF platform = "qnx" THEN Some("armv7")
    ELSE None

\* build_project returns `value` (to main, or to its direct caller)
Return(value) ==
    /\ ret' = value
    /\ pc' = IF entry = "main" THEN "main_exit" ELSE "done"

\* lines 509-534: the platform is detected when none was given, the
\* architecture defaults when none was given
BPResolve ==
    /\ pc = "bp_resolve"
    /\ \E host \in HostSystems :
         LET tp == IF Falsy(args.platform) THEN Some(detect_platform(host))
                   ELSE args.platform
         IN
         /\ target_platform' = tp
         /\ arch' = IF Falsy(args.arch) THEN DefaultArch(tp[1]) ELSE args.arch
         /\ log' = IF Falsy(args.platform)
                   THEN Append(log, Event("detect", <<host>>, 0)) ELSE log
    /\ pc' = "bp_clean"
    /\ UNCHANGED <<entry, args, environ, fs0, fs, check_result, success, ret,
                   exit_code, raised>>

\* lines 536-544: with clean, the build directory and then the conan
\* directory are removed when they exist
\* CleanDirs with the clean flag ignored
CleanDirs_Always(clean, st) ==
    RmtreeIfExists(RmtreeIfExists(st, build_dir), conan_dir)

\* CleanDirs with the conan directory forgotten
CleanDirs_BuildOnly(clean, st) ==
    IF clean THEN RmtreeIfExists(st, build_dir) ELSE st

CleanDirs(clean, st) ==
    IF clean THEN RmtreeIfExists(RmtreeIfExists(st, build_dir), conan_dir) ELSE st

BPClean ==
    /\ pc = "bp_clean"
    /\ LET st == CleanDirs(args.clean, [fs |-> fs, log |-> log, exc |-> ""]) IN
       /\ fs' = st.fs
       /\ log' = st.log
       /\ IF st.exc # ""
          THEN /\ Raise(st.exc)
               /\ ret' = "raise"
          ELSE /\ pc' = "bp_mkdir"
               /\ UNCHANGED <<ret, exit_code, raised>>
    /\ UNCHANGED <<entry, args, environ, fs0, check_result, target_platform, arch, success>>

\* MakeDirs with the conan directory forgotten
MakeDirs_BuildOnly(st) == Mkdir(st, build_dir)

\* lines 546-547: build_dir.mkdir(exist_ok=True); conan_dir.mkdir(exist_ok=True)
MakeDirs(st) == Mkdir(Mkdir(st, build_dir), conan_dir)

BPMkdir ==
    /\ pc = "bp_mkdir"
    /\ LET st == MakeDirs([fs |-> fs, log |-> log, exc |-> ""]) IN
       /\ fs' = st.fs
       /\ log' = st.log
       /\ IF st.exc # ""
          THEN /\ Raise(st.exc)
               /\ ret' = "raise"
          ELSE /\ pc' = "bp_dispatch"
               /\ UNCHANGED <<ret, exit_code, raised>>
    /\ UNCHANGED <<entry, args, environ, fs0, check_result, target_platform, arch, success>>

\* lines 549-568: the build function of the platform is entered, or False is
\* returned for a platform that has none
BPDispatch ==
    /\ pc = "bp_dispatch"
    /\ IF target_platform[1] \in Platforms
       THEN /\ log' = Append(log, Event("enter", <<"build_for_" \o target_platform[1]>>, 0))
            /\ pc' = target_platform[1] \o "_install"
            /\ UNCHANGED ret
       ELSE /\ Return("False")
            /\ UNCHANGED log
    /\ UNCHANGED <<entry, args, environ, fs0, fs, check_result, target_platform, arch,
                   success, exit_code, raised>>

\* lines 570-575: the build function's result is returned
BPReturn ==
    /\ pc = "bp_return"
    /\ Return(success)
    /\ UNCHANGED <<entry, args, environ, fs0, fs, check_result, target_platform, arch,
                   success, exit_code, raised, log>>

\* MainExit with the result ignored: sys.exit(0)
MainExit_AlwaysZero ==
    /\ pc = "main_exit"
    /\ exit_code' = 0
    /\ pc' = "done"
    /\ UNCHANGED <<entry, args, environ, fs0, fs, check_result, target_platform, arch,
                   success, ret, raised, log>>

\* main, lines 614-622: sys.exit(0 if success else 1)
MainExit ==
    /\ pc = "main_exit"
    /\ exit_code' = IF ret = "True" THEN 0 ELSE 1
    /\ pc' = "done"
    /\ UNCHANGED <<entry, args, environ, fs0, fs, check_result, target_platform, arch,
                   success, ret, raised, log>>

----------------------------------------------------------------------------
(* The command lines of the four build functions.  `a` is the function's    *)
(* architecture (a string), `bt` the build type, `v` the verbose flag.      *)

\* `if verbose: cmd.append("--verbose")`
WithVerbose(cmd, v) == IF v THEN Append(cmd, "--verbose") ELSE cmd

\* f"-DCMAKE_TOOLCHAIN_FILE={conan_dir}/build/generators/conan_toolchain.cmake"
ConanToolchain ==
    "-DCMAKE_TOOLCHAIN_FILE=" \o conan_dir \o "/build/generators/conan_toolchain.cmake"

WindowsInstallCmd(a, v) ==
    WithVerbose(<<"conan", "install", ".", "--output-folder", conan_dir,
                  "--build", "missing", "-s", "os=Windows", "-s", "arch=" \o a,
                  "-s", "compiler=msvc", "-s", "compiler.version=195",
                  "-s", "compiler.cppstd=17">>, v)

WindowsConfigureCmd(a, bt, v) ==
    WithVerbose(
        <<"cmake", "-S", ".", "-B", "build", "-G", "Visual Studio 18 2026",
          ConanToolchain, "-DCMAKE_PREFIX_PATH=" \o conan_dir,
          "-DCMAKE_BUILD_TYPE=" \o bt>>
        \o (IF a = "x86" THEN <<"-A", "Win32">>
            ELSE IF a = "x86_64" THEN <<"-A", "x64">>
            ELSE IF a = "armv8" THEN <<"-A", "ARM64">>
            ELSE <<>>), v)

WindowsBuildCmd(bt, v) ==
    WithVerbose(<<"cmake", "--build", "build", "--config", bt>>, v)

LinuxInstallCmd(a, v) ==
    WithVerbose(<<"conan", "install", ".", "--output-folder", conan_dir,
                  "--build", "missing", "-s", "os=Linux", "-s", "arch=" \o a,
                  "-s", "compiler=gcc", "-s", "compiler.version=11",
                  "-s", "compiler.cppstd=17">>, v)

LinuxConfigureCmd(a, bt, v) ==
    WithVerbose(
        <<"cmake", "-S", ".", "-B", "build", "-DCMAKE_BUILD_TYPE=" \o bt,
          "-DCMAKE_PREFIX_PATH=" \o conan_dir, ConanToolchain>>
        \o (IF a # "x86_64"
            THEN IF a = "x86" THEN <<"-DCMAKE_C_FLAGS=-m32", "-DCMAKE_CXX_FLAGS=-m32">>
                 ELSE IF a = "armv7"
                    THEN <<"-DCMAKE_TOOLCHAIN_FILE=cmake/arm-linux-gnueabihf.cmake">>
                 ELSE IF a = "armv8"
                    THEN <<"-DCMAKE_TOOLCHAIN_FILE=cmake/aarch64-linux-gnu.cmake">>
                 ELSE <<>>
            ELSE <<>>), v)

\* jobs = multiprocessing.cpu_count()
LinuxBuildCmd(jobs, v) ==
    WithVerbose(<<"cmake", "--build", "build", "-j", ToString(jobs)>>, v)

\* arch_to_abi, lines 335-340; None for an architecture that is not a key
arch_to_abi(a) ==
    IF a = "armv7" THEN Some("armeabi-v7a")
    ELSE IF a = "armv8" THEN Some("arm64-v8a")
    ELSE IF a = "x86" THEN Some("x86")
    ELSE IF a = "x86_64" THEN Some("x86_64")
    ELSE None

AndroidInstallCmd(a, v) ==
    WithVerbose(<<"conan", "install", ".", "--output-folder", conan_dir,
                  "--build", "missing", "-s", "os=Android", "-s", "arch=" \o a,
                  "-s", "compiler=clang", "-s", "compiler.version=12",
                  "-s", "compiler.cppstd=17">>, v)

\* android_ndk_home is os.environ.get("ANDROID_NDK_HOME"), None when unset
AndroidConfigureCmd(android_ndk_home, a, bt, v) ==
    WithVerbose(
        <<"cmake", "-S", ".", "-B", "build/android",
          "-DCMAKE_TOOLCHAIN_FILE=" \o Str(android_ndk_home)
              \o "/build/cmake/android.toolchain.cmake",
          "-DANDROID_ABI=" \o arch_to_abi(a)[1],
          "-DANDROID_PLATFORM=android-24",
          "-DCMAKE_BUILD_TYPE=" \o bt,
          "-DHUD_ENGINE_PLATFORM_ANDROID=ON", "-DHUD_ENGINE_USE_EGL=ON",
          "-DCMAKE_PREFIX_PATH=" \o conan_dir, ConanToolchain>>, v)

AndroidBuildCmd(v) ==
    WithVerbose(<<"cmake", "--build", "build/android", "-j", "4">>, v)

QnxInstallCmd(a, v) ==
    WithVerbose(<<"conan", "install", ".", "--output-folder", conan_dir,
                  "--build", "missing", "-s", "os=Neutrino", "-s", "arch=" \o a,
                  "-s", "compiler=qcc", "-s", "compiler.version=5.4",
                  "-s", "compiler.cppstd=17">>, v)

\* qnx_sdp_home is os.environ.get("QNX_SDP_HOME"), None when unset
QnxConfigureCmd(qnx_sdp_home, a, bt, v) ==
    WithVerbose(
        <<"cmake", "-S", ".", "-B", "build/qnx",
          "-DCMAKE_TOOLCHAIN_FILE=" \o Str(qnx_sdp_home) \o "/qnx710/cmake/toolchain.cmake",
          "-DCMAKE_BUILD_TYPE=" \o bt,
          "-DHUD_ENGINE_PLATFORM_QNX=ON", "-DHUD_ENGINE_USE_EGL=ON",
          "-DCMAKE_PREFIX_PATH=" \o conan_dir, ConanToolchain>>
        \o (IF a = "x86" THEN <<"-DQNX_TARGET_CPU=x86">>
            ELSE IF a = "armv7" THEN <<"-DQNX_TARGET_CPU=armv7">>
            ELSE IF a = "armv8" THEN <<"-DQNX_TARGET_CPU=aarch64le">>
            ELSE <<>>), v)

QnxBuildCmd(v) ==
    WithVerbose(<<"cmake", "--build", "build/qnx", "-j", "4">>, v)

----------------------------------------------------------------------------
(* The four build functions, one action per external command. *)

\* RunCommand with the return code ignored
RunCommand_IgnoreRc(l, cmd, ok_pc) ==
    \E rc \in 0..MaxReturnCode :
        /\ log' = Append(l, Event("run", cmd, rc))
        /\ IF ok_pc = "bp_return"
           THEN success' = "True" /\ pc' = "bp_return"
           ELSE success' = success /\ pc' = ok_pc

\* result = subprocess.run(cmd, cwd=project_root) appended to the log `l`;
\* `if result.returncode != 0: return False`, else the function goes on at
\* ok_pc, or returns True when the command was its last
RunCommand(l, cmd, ok_pc) ==
    \E rc \in 0..MaxReturnCode :
        /\ log' = Append(l, Event("run", cmd, rc))
        /\ IF rc # 0
           THEN success' = "False" /\ pc' = "bp_return"
           ELSE IF ok_pc = "bp_return"
           THEN success' = "True" /\ pc' = "bp_return"
           ELSE success' = success /\ pc' = ok_pc

\* what a build function's command action leaves alone
BuildFrame == UNCHANGED <<entry, args, environ, fs0, check_result, target_platform, ret,
                          exit_code, raised>>

\* ArchOr with the test lost: arch = default
ArchOr_Always(default) == Some(default)

\* `if not arch: arch = default`
ArchOr(default) == IF Falsy(arch) THEN Some(default) ELSE arch

\* build_for_windows, lines 146-177
build_for_windows_install ==
    /\ pc = "windows_install"
    /\ arch' = ArchOr("x86_64")
    /\ RunCommand(log, WindowsInstallCmd(arch'[1], args.verbose), "windows_configure")
    /\ UNCHANGED fs
    /\ BuildFrame

\* build_for_windows, lines 179-205
build_for_windows_configure ==
    /\ pc = "windows_configure"
    /\ RunCommand(log, WindowsConfigureCmd(arch[1], args.build_type, args.verbose),
                  "windows_build")
    /\ UNCHANGED <<fs, arch>>
    /\ BuildFrame

\* build_for_windows, lines 207-217
build_for_windows_build ==
    /\ pc = "windows_build"
    /\ RunCommand(log, WindowsBuildCmd(args.build_type, args.verbose), "bp_return")
    /\ UNCHANGED <<fs, arch>>
    /\ BuildFrame

\* build_for_linux, lines 234-265
build_for_linux_install ==
    /\ pc = "linux_install"
    /\ arch' = ArchOr("x86_64")
    /\ RunCommand(log, LinuxInstallCmd(arch'[1], args.verbose), "linux_configure")
    /\ UNCHANGED fs
    /\ BuildFrame

\* build_for_linux_configure as the last command of the function: configure
\* and compile taken for one command, True returned after it
build_for_linux_configure_Last ==
    /\ pc = "linux_configure"
    /\ RunCommand(log, LinuxConfigureCmd(arch[1], args.build_type, args.verbose),
                  "bp_return")
    /\ UNCHANGED <<fs, arch>>
    /\ BuildFrame

\* build_for_linux, lines 267-294
build_for_linux_configure ==
    /\ pc = "linux_configure"
    /\ RunCommand(log, LinuxConfigureCmd(arch[1], args.build_type, args.verbose),
                  "linux_build")
    /\ UNCHANGED <<fs, arch>>
    /\ BuildFrame

\* build_for_linux, lines 296-308
build_for_linux_build ==
    /\ pc = "linux_build"
    /\ \E jobs \in 1..MaxJobs :
         RunCommand(log, LinuxBuildCmd(jobs, args.verbose), "bp_return")
    /\ UNCHANGED <<fs, arch>>
    /\ BuildFrame

\* build_for_android, lines 325-374: the sub-directory is created, an
\* unsupported architecture returns False, then the install runs
build_for_android_install ==
    /\ pc = "android_install"
    /\ LET st == Mkdir([fs |-> fs, log |-> log, exc |-> ""], Join(build_dir, "android"))
           a == ArchOr("armv8")
       IN
       /\ fs' = st.fs
       /\ arch' = a
       /\ IF st.exc # ""
          THEN /\ Raise(st.exc)
               /\ ret' = "raise"
               /\ log' = st.log
               /\ UNCHANGED success
          ELSE /\ IF arch_to_abi(a[1]) = None
                  THEN /\ success' = "False"
                       /\ pc' = "bp_return"
                       /\ log' = st.log
                  ELSE RunCommand(st.log, AndroidInstallCmd(a[1], args.verbose),
                                  "android_configure")
               /\ UNCHANGED <<ret, exit_code, raised>>
    /\ UNCHANGED <<entry, args, environ, fs0, check_result, target_platform>>

\* build_for_android, lines 376-398
build_for_android_configure ==
    /\ pc = "android_configure"
    /\ RunCommand(log, AndroidConfigureCmd(environ[ANDROID_NDK_HOME], arch[1],
                                           args.build_type, args.verbose),
                  "android_build")
    /\ UNCHANGED <<fs, arch>>
    /\ BuildFrame

\* build_for_android, lines 400-410
build_for_android_build ==
    /\ pc = "android_build"
    /\ RunCommand(log, AndroidBuildCmd(args.verbose), "bp_return")
    /\ UNCHANGED <<fs, arch>>
    /\ BuildFrame

\* build_for_qnx, lines 414-449: the sub-directory is created, then the
\* install runs
build_for_qnx_install ==
    /\ pc = "qnx_install"
    /\ LET st == Mkdir([fs |-> fs, log |-> log, exc |-> ""], Join(build_dir, "qnx"))
           a == ArchOr("armv7")
       IN
       /\ fs' = st.fs
       /\ arch' = a
       /\ IF st.exc # ""
          THEN /\ Raise(st.exc)
               /\ ret' = "raise"
               /\ log' = st.log
               /\ UNCHANGED success
          ELSE /\ RunCommand(st.log, QnxInstallCmd(a[1], args.verbose), "qnx_configure")
               /\ UNCHANGED <<ret, exit_code, raised>>
    /\ UNCHANGED <<entry, args, environ, fs0, check_result, target_platform>>

\* build_for_qnx, lines 451-480
build_for_qnx_configure ==
    /\ pc = "qnx_configure"
    /\ RunCommand(log, QnxConfigureCmd(environ[QNX_SDP_HOME], arch[1],
                                       args.build_type, args.verbose),
                  "qnx_build")
    /\ UNCHANGED <<fs, arch>>
    /\ BuildFrame

\* build_for_qnx, lines 482-492
build_for_qnx_build ==
    /\ pc = "qnx_build"
    /\ RunCommand(log, QnxBuildCmd(args.verbose), "bp_return")
    /\ UNCHANGED <<fs, arch>>
    /\ BuildFrame

----------------------------------------------------------------------------
(* The run. *)

Next ==
    \/ ProbeConan
    \/ ProbeCMake
    \/ CheckPlatform
    \/ MainChecked
    \/ BPResolve
    \/ BPClean
    \/ BPMkdir
    \/ BPDispatch
    \/ build_for_windows_install
    \/ build_for_windows_configure
    \/ build_for_windows_build
    \/ build_for_linux_install
    \/ build_for_linux_configure
    \/ build_for_linux_build
    \/ build_for_android_install
    \/ build_for_android_configure
    \/ build_for_android_build
    \/ build_for_qnx_install
    \/ build_for_qnx_configure
    \/ build_for_qnx_build
    \/ BPReturn
    \/ MainExit

Spec == Init /\ [][Next]_vars

----------------------------------------------------------------------------
(* What a run did, read off the log. *)

\* the install/configure/build commands run so far, in order
Runs == SelectSeq(log, LAMBDA e : e.ev = "run")

\* which step of a build function a command line is
StepOf(cmd) ==
    IF cmd[1] = "conan" /\ cmd[2] = "install" THEN "install"
    ELSE IF cmd[1] = "cmake" /\ cmd[2] = "--build" THEN "build"
    ELSE IF cmd[1] = "cmake" /\ cmd[2] = "-S" THEN "configure"
    ELSE "other"

Steps == [i \in 1..Len(Runs) |-> StepOf(Runs[i].what)]

AllRunsZero == \A i \in 1..Len(Runs) : Runs[i].rc = 0

Entered(fn) == \E i \in 1..Len(log) : log[i] = Event("enter", <<fn>>, 0)

EnteredAny == \E p \in Platforms : Entered("build_for_" \o p)

\* a build function was entered and has returned
FunctionReturned ==
    EnteredAny /\ raised = "" /\ pc \in {"bp_return", "main_exit", "done"}

\* the host identifier detect_platform read, when it was called
Detected == \E i \in 1..Len(log) : log[i].ev = "detect"
DetectedHost == log[CHOOSE i \in 1..Len(log) : log[i].ev = "detect"].what[1]

----------------------------------------------------------------------------
(* C1 *)

\* C1: a run of main() that has exited has exit code 0 or 1; it has exit
\* code 0 only if the prerequisite check passed and the install, configure
\* and build commands of the selected target were all run and returned
\* zero; it has exit code 1 whenever the prerequisite check did not pass or
\* some external command returned non-zero.
C1_ExitCodes ==
    (entry = "main" /\ pc = "done") =>
        /\ exit_code \in {0, 1}
        /\ exit_code = 0 =>
              /\ check_result = "True"
              /\ Entered("build_for_" \o target_platform[1])
              /\ Steps = <<"install", "configure", "build">>
              /\ AllRunsZero
        /\ (check_result # "True" \/ ~AllRunsZero) => exit_code = 1

C1_Witness ==
    entry = "main" /\ pc = "done" /\ exit_code = 0 /\ Len(Runs) = 3

----------------------------------------------------------------------------
(* C2 *)

\* C2 as claimed: a build function that returned True after every command
\* returned zero has run exactly two commands, the install first.
C2_TwoCommands ==
    (FunctionReturned /\ success = "True") =>
        Len(Runs) = 2 /\ Steps[1] = "install"

\* C2 as amended: a build function that ran its commands, every one
\* returning zero, has run exactly three: install, then configure, then
\* build.
C2_ThreeCommands ==
    (FunctionReturned /\ Len(Runs) > 0 /\ AllRunsZero) =>
        Steps = <<"install", "configure", "build">>

C2_Witness ==
    /\ FunctionReturned /\ AllRunsZero /\ Len(Runs) = 3
    /\ Entered("build_for_linux")

----------------------------------------------------------------------------
(* C3 *)

\* C3 as claimed: when the platform is detected it is one of the four build
\* targets, and the run dispatches to one of the four build functions.
C3_FourTargets ==
    Detected =>
        /\ target_platform[1] \in Platforms
        /\ (pc = "done" /\ raised = "") => EnteredAny

\* C3 as amended: detect_platform maps the host to windows, linux, macos or
\* unknown (Windows, Linux, Darwin, any other host); a run with no platform
\* given dispatches to build_for_windows or build_for_linux on the first two
\* and otherwise returns False without entering a build function or running
\* a command.
C3_DetectedTargets ==
    Detected =>
        LET tp == target_platform[1] IN
        /\ tp \in {"windows", "linux", "macos", "unknown"}
        /\ tp = "windows" <=> DetectedHost = "Windows"
        /\ tp = "linux" <=> DetectedHost = "Linux"
        /\ tp = "macos" <=> DetectedHost = "Darwin"
        /\ (pc = "done" /\ raised = "") =>
              IF tp \in {"windows", "linux"}
              THEN Entered("build_for_" \o tp)
              ELSE ret = "False" /\ ~EnteredAny /\ Len(Runs) = 0

C3_Witness ==
    /\ Detected /\ pc = "done" /\ raised = ""
    /\ target_platform = Some("macos") /\ ret = "False"

----------------------------------------------------------------------------
(* C4 *)

\* the version probe of `tool` was found and returned zero
ProbeOk(tool) ==
    \E i \in 1..Len(log) : log[i] = Event("probe", <<tool, "--version">>, 0)

\* the SDK variable is set and points to an existing directory
SdkDirOk(var) ==
    /\ environ[var] # None
    /\ environ[var][1] \in DOMAIN fs
    /\ fs[environ[var][1]] = "dir"

\* C4: once check_prerequisites has ended, it has returned True exactly when
\* both version probes were found and returned zero and, for android or qnx,
\* the SDK variable is set and points to an existing directory.
C4_TrueExactlyWhen ==
    check_result # "pending" =>
        (check_result = "True" <=>
            /\ ProbeOk("conan")
            /\ ProbeOk("cmake")
            /\ args.platform = Some("android") => SdkDirOk(ANDROID_NDK_HOME)
            /\ args.platform = Some("qnx") => SdkDirOk(QNX_SDP_HOME))

----------------------------------------------------------------------------
(* C5 *)

\* the command lines of a successful build, as a table
CommandTable(tp, a, bt, v, env, jobs) ==
    CASE tp = "windows" ->
            <<WindowsInstallCmd(a, v), WindowsConfigureCmd(a, bt, v), WindowsBuildCmd(bt, v)>>
      [] tp = "linux" ->
            <<LinuxInstallCmd(a, v), LinuxConfigureCmd(a, bt, v), LinuxBuildCmd(jobs, v)>>
      [] tp = "android" ->
            <<AndroidInstallCmd(a, v),
              AndroidConfigureCmd(env[ANDROID_NDK_HOME], a, bt, v), AndroidBuildCmd(v)>>
      [] tp = "qnx" ->
            <<QnxInstallCmd(a, v),
              QnxConfigureCmd(env[QNX_SDP_HOME], a, bt, v), QnxBuildCmd(v)>>
      [] OTHER -> <<>>

\* the table's row for the arguments of a run on a host
TableRow(platform, a, bt, v, host, env, jobs) ==
    LET tp == IF platform = None THEN detect_platform(host) ELSE platform[1]
        ar == IF a # None THEN a[1]
              ELSE IF tp \in {"windows", "linux"} THEN "x86_64"
              ELSE IF tp = "android" THEN "armv8"
              ELSE "armv7"
    IN CommandTable(tp, ar, bt, v, env, jobs)

Cmds == [i \in 1..Len(Runs) |-> Runs[i].what]

\* the host a run detected its platform from; any host when a platform was
\* given, detect_platform not being called then
HostOf == IF Detected THEN DetectedHost ELSE "Linux"

\* the run two runs are compared with: not verbose, on a one-CPU host, both
\* SDK variables set to their paths
RefEnviron ==
    [var \in {ANDROID_NDK_HOME, QNX_SDP_HOME} |->
        IF var = ANDROID_NDK_HOME THEN Some(NdkPath) ELSE Some(QnxPath)]

\* C5 as claimed: the command lines of a build in which all commands succeed
\* are those of any other such run with the same platform (given, or
\* detected on the same host), arch and build type; in particular those of
\* the run that is not verbose, on a one-CPU host with both SDK variables
\* set.
C5_InputsAlone ==
    ret = "True" =>
        Cmds = TableRow(args.platform, args.arch, args.build_type,
                        FALSE, HostOf, RefEnviron, 1)

\* C5 as amended: the command lines of a build in which all commands succeed
\* are a function of the platform, the arch and the build type together with
\* the verbose flag, the host system when no platform is given, the value of
\* the target's SDK variable (android, qnx) and the host CPU count (linux).
C5_InputsAndHost ==
    ret = "True" =>
        \E jobs \in 1..MaxJobs :
            Cmds = TableRow(args.platform, args.arch, args.build_type, args.verbose,
                            HostOf, environ, jobs)

C5_Witness ==
    ret = "True" /\ args.verbose /\ Entered("build_for_android") /\ args.arch = Some("x86")

----------------------------------------------------------------------------
(* C6 *)

\* the directories the script creates
ScriptDirs == {build_dir, conan_dir, Join(build_dir, "android"), Join(build_dir, "qnx")}

\* C6 as claimed: no step of a run removes anything that exists, and the
\* only change a step makes is creating one of the script's directories that
\* was absent.
C6_NothingRemoved ==
    [][\A p \in Paths :
         fs'[p] # fs[p] => fs[p] = "absent" /\ fs'[p] = "dir" /\ p \in ScriptDirs]_vars

\* C6 as amended: a step either creates one of the script's directories that
\* was absent, or it is the clean step of a run with clean set, which removes
\* the existing build and conan directories and everything below them.
C6_RemovedOnlyByClean ==
    [][\A p \in Paths :
         fs'[p] # fs[p] =>
            \/ fs[p] = "absent" /\ fs'[p] = "dir" /\ p \in ScriptDirs
            \/ /\ args.clean /\ pc = "bp_clean" /\ fs'[p] = "absent"
               /\ \/ p \in {build_dir, conan_dir} /\ fs[p] = "dir"
                  \/ p \in Children(build_dir) /\ fs[build_dir] = "dir"]_vars

C6_Witness ==
    /\ args.clean /\ fs0[build_dir] = "dir" /\ fs0[Join(build_dir, "android")] = "dir"
    /\ \E i \in 1..Len(log) : log[i] = Event("rmtree", <<build_dir>>, 0)
    /\ fs[Join(build_dir, "android")] = "absent"

----------------------------------------------------------------------------
(* C7 *)

\* the position in the log of the first install/configure/build command
FirstRun == CHOOSE i \in 1..Len(log) : log[i].ev = "run" /\ \A j \in 1..(i - 1) : log[j].ev # "run"

\* C7: with clean, a build or conan directory that existed at the start was
\* removed before the first command was run, and nothing that was below the
\* build directory is left when a build function is entered; with or without
\* clean, both directories exist from the moment a build function is entered.
C7_CleanBeforeBuild ==
    /\ EnteredAny => fs[build_dir] = "dir" /\ fs[conan_dir] = "dir"
    /\ (args.clean /\ Len(Runs) > 0) =>
          \A p \in {build_dir, conan_dir} :
              fs0[p] = "dir" =>
                  \E i \in 1..(FirstRun - 1) : log[i] = Event("rmtree", <<p>>, 0)
    /\ (args.clean /\ pc \in {q \o "_install" : q \in Platforms}) =>
          \A q \in Children(build_dir) : fs[q] = "absent"

C7_Witness ==
    /\ args.clean /\ fs0[build_dir] = "dir" /\ fs0[conan_dir] = "dir"
    /\ Len(Runs) > 0

----------------------------------------------------------------------------
(* C8 *)

\* C8: the commands of a build function are, in order, a prefix of install,
\* configure, build; every command but the last one run returned zero; once
\* a command returned non-zero the function has returned False, no step
\* following; the function returned True only after all three returned zero.
C8_StepsInOrder ==
    /\ Len(Runs) <= 3
    /\ \A i \in 1..Len(Runs) : Steps[i] = <<"install", "configure", "build">>[i]
    /\ \A i \in 1..(Len(Runs) - 1) : Runs[i].rc = 0
    /\ ~AllRunsZero =>
          /\ success = "False"
          /\ pc \in {"bp_return", "main_exit", "done"}
    /\ success = "True" => Len(Runs) = 3 /\ AllRunsZero

C8_Witness ==
    /\ FunctionReturned /\ Len(Runs) = 2 /\ Runs[2].rc # 0
    /\ success = "False" /\ pc = "done"

----------------------------------------------------------------------------
(* C9 *)

\* the entries of the log that are effects of build_project
IsEffect(e) == e.ev \in {"rmtree", "mkdir", "enter", "run"}
\* the entries of the log that are steps of check_prerequisites
IsCheck(e) == e.ev \in {"probe", "probe_notfound", "check_env"}

\* C9: in a run of main(), a directory is removed or created and a command
\* is run only after check_prerequisites has returned True, every step of the
\* check coming first; until then, and for good when the check fails, the
\* filesystem is as it was and no command was run, and a run whose check
\* failed exits with code 1.
C9_CheckBeforeBuild ==
    entry = "main" =>
        /\ \A i \in 1..Len(log) :
              IsEffect(log[i]) =>
                  /\ check_result = "True"
                  /\ \A j \in 1..Len(log) : IsCheck(log[j]) => j < i
        /\ check_result # "True" =>
              /\ fs = fs0
              /\ \A i \in 1..Len(log) : ~IsEffect(log[i])
        /\ (check_result \in {"False", "raise"} /\ pc = "done") => exit_code = 1

C9_Witness ==
    /\ entry = "main" /\ check_result = "False" /\ pc = "done"
    /\ args.clean /\ fs0[build_dir] = "dir"

----------------------------------------------------------------------------
(* C10 *)

\* build function `fn` was entered after the SDK variable `var` was checked
\* and found set and naming an existing path
EnteredAfterCheck(fn, var) ==
    \A i \in 1..Len(log) :
        log[i] = Event("enter", <<fn>>, 0) =>
            /\ \E j \in 1..(i - 1) : log[j] = Event("check_env", <<var>>, 0)
            /\ ~Falsy(environ[var])
            /\ PathExists(fs, environ[var][1])

\* a configure command built with an unset SDK variable
NoneToolchains ==
    {"-DCMAKE_TOOLCHAIN_FILE=None/build/cmake/android.toolchain.cmake",
     "-DCMAKE_TOOLCHAIN_FILE=None/qnx710/cmake/toolchain.cmake"}

\* C10: in a run of main(), build_for_android (build_for_qnx) is entered only
\* after ANDROID_NDK_HOME (QNX_SDP_HOME) was checked to be set and to name an
\* existing path; with no platform given neither function is entered; and no
\* command has a toolchain path beginning with None.
C10_SdkChecked ==
    entry = "main" =>
        /\ EnteredAfterCheck("build_for_android", ANDROID_NDK_HOME)
        /\ EnteredAfterCheck("build_for_qnx", QNX_SDP_HOME)
        /\ args.platform = None =>
              ~Entered("build_for_android") /\ ~Entered("build_for_qnx")
        /\ \A i \in 1..Len(Runs) :
              \A k \in 1..Len(Runs[i].what) : Runs[i].what[k] \notin NoneToolchains

C10_Witness ==
    /\ entry = "main" /\ Entered("build_for_android")
    /\ Len(Runs) >= 2 /\ Runs[2].what[6] = "-DCMAKE_TOOLCHAIN_FILE=/opt/ndk/build/cmake/android.toolchain.cmake"

----------------------------------------------------------------------------
(* C11 *)

\* build_project returned False for a platform that has no build function
UnsupportedReturned ==
    /\ target_platform # None
    /\ target_platform[1] \notin Platforms
    /\ ret = "False"

\* C11 as claimed: when build_project returns False for a platform that is
\* not one of the four, no command was run and the filesystem is as it was
\* at the start, nothing removed and nothing created, clean set or not.
C11_StateUnchanged ==
    UnsupportedReturned =>
        /\ Len(Runs) = 0
        /\ fs = fs0
        /\ \A i \in 1..Len(log) : log[i].ev \notin {"rmtree", "mkdir"}

\* C11 as amended: when build_project returns False for a platform that is
\* not one of the four, no build function was entered and no command was
\* run, but the directories were prepared first: with clean a build or conan
\* directory that existed was removed, and both directories now exist, each
\* created when it was absent; nothing else has changed.
C11_DirsPrepared ==
    UnsupportedReturned =>
        /\ Len(Runs) = 0
        /\ ~EnteredAny
        /\ fs[build_dir] = "dir" /\ fs[conan_dir] = "dir"
        /\ \A p \in {build_dir, conan_dir} :
              /\ (\E i \in 1..Len(log) : log[i] = Event("rmtree", <<p>>, 0))
                    <=> (args.clean /\ fs0[p] = "dir")
              /\ (\E i \in 1..Len(log) : log[i] = Event("mkdir", <<p>>, 0))
                    <=> (fs0[p] = "absent" \/ args.clean)
        /\ \A p \in Paths \ {build_dir, conan_dir} :
              fs[p] = fs0[p] \/ (args.clean /\ p \in Children(build_dir) /\ fs[p] = "absent")

C11_Witness ==
    /\ UnsupportedReturned /\ pc = "done"
    /\ args.clean /\ fs0[build_dir] = "dir" /\ fs0[conan_dir] = "absent"
    /\ \E i \in 1..Len(log) : log[i] = Event("rmtree", <<build_dir>>, 0)

====
